---- MODULE Spec2Model ----
(***************************************************************************)
(* Model of apps/web/scripts/capture_screenshot.py (capture) and           *)
(* apps/web/scripts/deep_seo_audit.py (audit).                             *)
(*                                                                         *)
(* One behaviour is one invocation of capture() or audit() against one     *)
(* page.  The page (the DOM the browser renders for the url) is the input; *)
(* every statement of the function body is one action.                     *)
(*                                                                         *)
(* Units.  Rectangle coordinates are integers in tenths of a CSS pixel, so *)
(* that fractional boxes exist and Math.round does something.  Computed    *)
(* font sizes are integers in hundredths of a pixel.  Text is a sequence   *)
(* of one-character strings.  An optional value (JS null / Python None) is *)
(* None == <<>>, a present value v is Some(v) == <<v>>.                     *)
(***************************************************************************)
EXTENDS Integers, Sequences, FiniteSets, TLC

VARIABLES fn, page, pc, ip, playwright, browser, locals, log, fs, err, result

vars == <<fn, page, pc, ip, playwright, browser, locals, log, fs, err, result>>

----------------------------------------------------------------------------
(* Bounds of the model *)

\* longest element list of one kind on a page
MaxEls == 2

\* longest list of tap targets / body text elements on a page
MaxBoxes == 2

----------------------------------------------------------------------------
(* Program constants *)

viewport_height_audit == 900

viewport_height_capture == 1080

\* tooSmall: r.width < 44 || r.height < 44
TapMin == 44

HeadingTextMax == 80

TapTextMax == 40

SrcSuffixMax == 40

SampleMax == 5

H2Max == 5

CtaMax == 8

LogoMax == 3

FontFaceMax == 10

----------------------------------------------------------------------------
(* Optional values, sequences *)

None == <<>>

Some(v) == <<v>>

\* Python s[:n], JS s.slice(0, n)
Take(s, n) == SubSeq(s, 1, IF Len(s) < n THEN Len(s) ELSE n)

\* JS s.slice(-n)
TakeLast(s, n) == SubSeq(s, IF Len(s) > n THEN Len(s) - n + 1 ELSE 1, Len(s))

RECURSIVE SumSeq(_)
SumSeq(s) == IF s = <<>> THEN 0 ELSE Head(s) + SumSeq(Tail(s))

RECURSIVE MinSeq(_)
MinSeq(s) ==
    IF Len(s) = 1 THEN s[1]
    ELSE LET m == MinSeq(Tail(s)) IN IF s[1] <= m THEN s[1] ELSE m

\* all sequences over S of length 0..n
SeqsUpTo(S, n) == UNION {[1..k -> S] : k \in 0..n}

----------------------------------------------------------------------------
(* Text: String.prototype.trim, toLowerCase, includes *)

WhiteSpace == {" ", "\t", "\n"}

RECURSIVE TrimLeft(_)
TrimLeft(s) ==
    IF s # <<>> /\ Head(s) \in WhiteSpace THEN TrimLeft(Tail(s)) ELSE s

RECURSIVE TrimRight(_)
TrimRight(s) ==
    IF s # <<>> /\ s[Len(s)] \in WhiteSpace
    THEN TrimRight(SubSeq(s, 1, Len(s) - 1))
    ELSE s

Trim(s) == TrimRight(TrimLeft(s))

LowerChar(c) ==
    CASE c = "G" -> "g"
      [] c = "L" -> "l"
      [] c = "O" -> "o"
      [] c = "E" -> "e"
      [] c = "T" -> "t"
      [] OTHER -> c

ToLowerCase(s) == [i \in 1..Len(s) |-> LowerChar(s[i])]

Includes(s, k) ==
    \E i \in 1..(Len(s) + 1) :
        /\ i + Len(k) - 1 <= Len(s)
        /\ SubSeq(s, i, i + Len(k) - 1) = k

\* JS a || b on nullable strings: a when a is non-null and non-empty
JsOr(a, b) == IF a # None /\ a[1] # <<>> THEN a ELSE b

----------------------------------------------------------------------------
(* Numbers *)

\* Math.round of a length in tenths of a pixel, result in pixels
\* (.5 rounds toward +Infinity)
MathRound(x) == (x + 5) \div 10

\* The integers nearest to num/den (den > 0).  An exact tie has two: Python's
\* round() decides a decimal tie by the binary value of the float, which this
\* arithmetic does not represent, so either neighbour is allowed.
RoundDiv(num, den) ==
    LET lo == num \div den
        twice == 2 * (num - lo * den)
    IN  IF twice < den THEN {lo}
        ELSE IF twice > den THEN {lo + 1}
        ELSE {lo, lo + 1}

----------------------------------------------------------------------------
(* Outcome of a call that may raise *)

Ok(v) == [raised |-> FALSE, value |-> v]

Raised(kind) == [raised |-> TRUE, value |-> kind]

----------------------------------------------------------------------------
(* DOM reads shared by the extractors *)

\* DOMRect.bottom
Bottom(el) == el.top + el.height

\* window.innerHeight, in tenths of a pixel: the context's viewport height
InnerHeight(f) ==
    10 * (IF f = "audit" THEN viewport_height_audit ELSE viewport_height_capture)

\* r.top < window.innerHeight && r.bottom > 0
InViewport(el, ih) == el.top < ih /\ Bottom(el) > 0

\* page.query_selector(selector): the first matching element, or None
query_selector(pg, selector) == pg.metas[selector]

\* ElementHandle.get_attribute(attr); calling it on None is an AttributeError
get_attribute(el, attr) ==
    IF el = None THEN Raised("AttributeError") ELSE Ok(el[1][attr])

\* page.eval_on_selector(selector, 'el => el ? el.getAttribute("content") : null'):
\* Playwright raises when no element matches the selector
eval_on_selector(pg, selector) ==
    LET el == query_selector(pg, selector)
    IN  IF el = None THEN Raised("Error") ELSE Ok(el[1]["content"])

----------------------------------------------------------------------------
(* deep_seo_audit.py: the extractors of audit() *)

\* performance.getEntriesByType("layout-shift") summed; 0 when it throws
cls_sum(pg) == IF pg.cls.supported THEN SumSeq(pg.cls.entries) ELSE 0

HeadingOf(el, ih) ==
    [tag |-> el.tag,
     text |-> Take(Trim(el.text), HeadingTextMax),
     fontSize |-> el.fontSize,
     fontWeight |-> el.fontWeight,
     top |-> MathRound(el.top),
     aboveFold |-> InViewport(el, ih)]

ExtractHeadings(pg, ih) ==
    [i \in 1..Len(pg.headings) |-> HeadingOf(pg.headings[i], ih)]

TapTargetOf(el) ==
    [text |-> Take(Trim(el.text), TapTextMax),
     tag |-> el.tag,
     width |-> MathRound(el.width),
     height |-> MathRound(el.height),
     top |-> MathRound(el.top),
     tooSmall |-> el.width < 10 * TapMin \/ el.height < 10 * TapMin]

\* .filter(t => t.width > 0 && t.height > 0)
TapKept(t) == t.width > 0 /\ t.height > 0

ExtractTapTargets(pg) ==
    SelectSeq([i \in 1..Len(pg.anchors) |-> TapTargetOf(pg.anchors[i])], TapKept)

\* [t for t in tap_targets if t['tooSmall']]
SmallTargets(tap_targets) == SelectSeq(tap_targets, LAMBDA t : t.tooSmall)

\* variant: get_meta without the "if el" guard
get_meta_unguarded(pg, selector, attr) ==
    get_attribute(query_selector(pg, selector), attr)

get_meta(pg, selector, attr) ==
    LET el == query_selector(pg, selector)
    IN  IF el # None THEN get_attribute(el, attr) ELSE Ok(None)

ExtractLdJson(pg) == [i \in 1..Len(pg.ldjson) |-> Trim(pg.ldjson[i])]

\* variant: hasAlt without .trim()
HasAltUntrimmed(alt) == Len(JsOr(alt, Some(<<>>))[1]) > 0

\* (el.getAttribute("alt") || "").trim().length > 0
HasAlt(alt) == Len(Trim(JsOr(alt, Some(<<>>))[1])) > 0

ImageOf(el) ==
    [src |-> TakeLast(JsOr(el.src, Some(<<>>))[1], SrcSuffixMax),
     alt |-> el.alt,
     hasAlt |-> HasAlt(el.alt),
     width |-> MathRound(el.width),
     height |-> MathRound(el.height)]

\* selector 'img'
ExtractImages(pg) ==
    LET els == SelectSeq(pg.imgs, LAMBDA el : el.tag = "IMG")
    IN  [i \in 1..Len(els) |-> ImageOf(els[i])]

\* [i for i in images if not i['hasAlt']]
MissingAlt(images) == SelectSeq(images, LAMBDA i : ~i.hasAlt)

ExtractFontFaces(pg) == Take(pg.fonts, FontFaceMax)

\* variant: the filter without r.height > 0
BodyKeptAnyHeight(el, ih) == InViewport(el, ih)

\* .filter(el => r.top < innerHeight && r.bottom > 0 && r.height > 0)
BodyKept(el, ih) == InViewport(el, ih) /\ el.height > 0

\* .map(el => parseFloat(getComputedStyle(el).fontSize)).filter(s => s > 0)
\* A computed font size is "<number>px"; parseFloat gives the number.
ExtractBodyFontSizes(pg, ih) ==
    LET els == SelectSeq(pg.body, LAMBDA el : BodyKept(el, ih))
    IN  SelectSeq([i \in 1..Len(els) |-> els[i].fontSize], LAMBDA s : s > 0)

\* min(body_font_sizes) if body_font_sizes else None   (hundredths of a pixel)
MinFont(sizes) == IF sizes # <<>> THEN Some(MinSeq(sizes)) ELSE None

\* round(sum(sizes)/len(sizes), 1) if sizes else None.  The possible results,
\* in hundredths of a pixel (a multiple of 10: one decimal place).
AvgFont(sizes) ==
    IF sizes # <<>>
    THEN {Some(10 * t) : t \in RoundDiv(SumSeq(sizes), 10 * Len(sizes))}
    ELSE {None}

----------------------------------------------------------------------------
(* capture_screenshot.py: the extractors of capture() *)

\* page.eval_on_selector_all(tag, 'els => els.map(e => e.innerText.trim())')
ExtractHeadingTexts(pg, tag) ==
    LET els == SelectSeq(pg.headings, LAMBDA el : el.tag = tag)
    IN  [i \in 1..Len(els) |-> Trim(els[i].text)]

\* eval_on_selector(...) if page.query_selector(...) else None
meta_desc_expr(pg) ==
    IF query_selector(pg, "description") # None
    THEN eval_on_selector(pg, "description")
    ELSE Ok(None)

CtaKeywords ==
    { <<"g","e","t">>, <<"s","t","a","r","t">>, <<"b","o","o","k">>,
      <<"c","o","n","t","a","c","t">>, <<"t","r","y">>, <<"d","e","m","o">>,
      <<"f","r","e","e">>, <<"s","i","g","n">>,
      <<"r","e","q","u","e","s","t">> }

IsCta(el) ==
    LET t == ToLowerCase(Trim(el.text))
    IN  \E k \in CtaKeywords : Includes(t, k)

CtaOf(el, ih) ==
    [text |-> Trim(el.text),
     tag |-> el.tag,
     top |-> MathRound(el.top),
     left |-> MathRound(el.left),
     width |-> MathRound(el.width),
     height |-> MathRound(el.height),
     visible |-> InViewport(el, ih)]

ExtractCtas(pg, ih) ==
    LET els == Take(SelectSeq(pg.anchors, IsCta), CtaMax)
    IN  [i \in 1..Len(els) |-> CtaOf(els[i], ih)]

IsLogo(el) ==
    LET src == ToLowerCase(
                 JsOr(el.src, JsOr(el.alt, JsOr(el.ariaLabel, Some(<<>>))))[1])
    IN  Includes(src, <<"l","o","g","o">>) \/ el.inHeader \/ el.inNav

\* visible: r.top < window.innerHeight
LogoVisible(el, ih) == el.top < ih

LogoOf(el, ih) ==
    [tag |-> el.tag,
     src |-> JsOr(el.src, Some(<<"(","s","v","g",")">>))[1],
     visible |-> LogoVisible(el, ih)]

\* selector 'img, svg'
ExtractLogos(pg, ih) ==
    LET els == Take(SelectSeq(pg.imgs, IsLogo), LogoMax)
    IN  [i \in 1..Len(els) |-> LogoOf(els[i], ih)]

----------------------------------------------------------------------------
(* The two function bodies, statement by statement *)

\* audit(): deep_seo_audit.py lines 9-162
AuditProgram ==
    << "sync_playwright", "launch", "new_context", "new_page", "cls_entries",
       "page_on", "goto", "wait", "cls_score", "headings", "tap_targets",
       "small_targets", "og_title", "og_desc", "og_image", "og_url", "tw_card",
       "tw_title", "canonical", "robots", "viewport_m", "ld_json_blocks",
       "images", "font_faces", "body_font_sizes", "min_font", "avg_font",
       "close", "return" >>

\* variant: the browser is closed before the screenshot is taken
CaptureProgramCloseFirst ==
    << "sync_playwright", "launch", "new_context", "new_page", "goto", "wait",
       "title", "h1s", "h2s", "meta_desc", "ctas", "scroll_width",
       "client_width", "has_h_scroll", "logo_candidates", "makedirs",
       "close", "screenshot", "return" >>

\* capture(): capture_screenshot.py lines 9-91
CaptureProgram ==
    << "sync_playwright", "launch", "new_context", "new_page", "goto", "wait",
       "title", "h1s", "h2s", "meta_desc", "ctas", "scroll_width",
       "client_width", "has_h_scroll", "logo_candidates", "makedirs",
       "screenshot", "close", "return" >>

Program(f) == IF f = "audit" THEN AuditProgram ELSE CaptureProgram

\* the get_meta call sites: local variable -> selector, attribute
MetaCalls ==
    [og_title   |-> [selector |-> "og:title", attr |-> "content"],
     og_desc    |-> [selector |-> "og:description", attr |-> "content"],
     og_image   |-> [selector |-> "og:image", attr |-> "content"],
     og_url     |-> [selector |-> "og:url", attr |-> "content"],
     tw_card    |-> [selector |-> "twitter:card", attr |-> "content"],
     tw_title   |-> [selector |-> "twitter:title", attr |-> "content"],
     canonical  |-> [selector |-> "canonical", attr |-> "href"],
     robots     |-> [selector |-> "robots", attr |-> "content"],
     viewport_m |-> [selector |-> "viewport", attr |-> "content"]]

\* statements that call into Playwright or the OS and can fail there
\* (page.goto has its own failure action)
EngineCalls ==
    { "launch", "new_context", "new_page", "page_on", "wait", "cls_score",
      "headings", "tap_targets", "ld_json_blocks", "images", "font_faces",
      "body_font_sizes", "title", "h1s", "h2s", "meta_desc", "ctas",
      "scroll_width", "client_width", "logo_candidates", "makedirs",
      "screenshot", "close" } \cup DOMAIN MetaCalls

ErrorOf(stmt) ==
    CASE stmt \in {"launch", "new_context", "new_page", "page_on"} -> "LaunchError"
      [] stmt \in {"makedirs", "screenshot"} -> "OutputWriteError"
      [] stmt = "close" -> "CloseError"
      [] OTHER -> "ExtractionError"

NavigationReasons == {"timeout", "dns", "other"}

----------------------------------------------------------------------------
(* State helpers *)

NoLocals == [k \in {} |-> 0]

Bind(f, k, v) == [x \in DOMAIN f \cup {k} |-> IF x = k THEN v ELSE f[x]]

Stmt == Program(fn)[ip]

At(s) == pc = "run" /\ ip <= Len(Program(fn)) /\ Stmt = s

\* the statement completes: fall through to the next one
Done(s) ==
    /\ log' = Append(log, s)
    /\ ip' = ip + 1
    /\ UNCHANGED <<fn, page, pc, err, result>>

\* the statement completes and binds local variable s
Eval(s, v) ==
    /\ locals' = Bind(locals, s, v)
    /\ Done(s)
    /\ UNCHANGED <<playwright, browser, fs>>

\* variant: the exception is caught and what was collected so far is returned
FailReturningPartial(kind) ==
    /\ pc' = "returning"
    /\ err' = kind
    /\ result' = Some(locals)
    /\ UNCHANGED <<fn, page, ip, playwright, browser, locals, log, fs>>

\* the statement raises: the exception leaves the with block
Fail(kind) ==
    /\ pc' = "unwinding"
    /\ err' = kind
    /\ UNCHANGED <<fn, page, ip, playwright, browser, locals, log, fs, result>>

\* variant: the driver is stopped without ending the browsers it launched
PlaywrightStopLeaky(b) == b

\* sync_playwright().__exit__: stopping the driver ends every browser it
\* launched, closed by browser.close() or not
PlaywrightStop(b) == IF b = "open" THEN "closed" ELSE b

----------------------------------------------------------------------------
(* Statements common to capture() and audit() *)

\* with sync_playwright() as p:
EnterPlaywright ==
    /\ At("sync_playwright")
    /\ playwright' = "running"
    /\ Done("sync_playwright")
    /\ UNCHANGED <<browser, locals, fs>>

\* browser = p.chromium.launch(headless=True)
Launch ==
    /\ At("launch")
    /\ browser' = "open"
    /\ Done("launch")
    /\ UNCHANGED <<playwright, locals, fs>>

\* context = browser.new_context(viewport=..., user_agent=...)
NewContext ==
    /\ At("new_context")
    /\ Done("new_context")
    /\ UNCHANGED <<playwright, browser, locals, fs>>

\* page = context.new_page()
NewPage ==
    /\ At("new_page")
    /\ Done("new_page")
    /\ UNCHANGED <<playwright, browser, locals, fs>>

\* page.goto(url, wait_until='networkidle', timeout=60000) returns
GotoOk ==
    /\ At("goto")
    /\ log' = Append(log, "goto:ok")
    /\ ip' = ip + 1
    /\ UNCHANGED <<fn, page, pc, playwright, browser, locals, fs, err, result>>

\* variant: the navigation failure is swallowed and the function carries on
GotoFailSwallowed ==
    /\ At("goto")
    /\ log' = Append(log, "goto:fail")
    /\ ip' = ip + 1
    /\ UNCHANGED <<fn, page, pc, playwright, browser, locals, fs, err, result>>

\* page.goto raises: the exception propagates, nothing catches it
GotoFail ==
    /\ At("goto")
    /\ \E reason \in NavigationReasons :
         /\ log' = Append(log, "goto:fail")
         /\ pc' = "unwinding"
         /\ err' = "NavigationError:" \o reason
    /\ UNCHANGED <<fn, page, ip, playwright, browser, locals, fs, result>>

\* page.wait_for_timeout(...)
Wait ==
    /\ At("wait")
    /\ Done("wait")
    /\ UNCHANGED <<playwright, browser, locals, fs>>

\* browser.close()
Close ==
    /\ At("close")
    /\ browser' = "closed"
    /\ Done("close")
    /\ UNCHANGED <<playwright, locals, fs>>

\* a Playwright or OS call fails for a reason of the engine's
Raise ==
    /\ pc = "run"
    /\ ip <= Len(Program(fn))
    /\ Stmt \in EngineCalls
    /\ Fail(ErrorOf(Stmt))

\* sync_playwright() itself fails: the with block is never entered
RaiseEnter ==
    /\ At("sync_playwright")
    /\ pc' = "exited"
    /\ err' = "LaunchError"
    /\ UNCHANGED <<fn, page, ip, playwright, browser, locals, log, fs, result>>

\* leaving the with block, by return or by exception
WithExit ==
    /\ pc \in {"unwinding", "returning"}
    /\ playwright' = "stopped"
    /\ browser' = PlaywrightStop(browser)
    /\ pc' = "exited"
    /\ UNCHANGED <<fn, page, ip, locals, log, fs, err, result>>

----------------------------------------------------------------------------
(* Statements of audit() *)

\* cls_entries = []
ClsEntries == At("cls_entries") /\ Eval("cls_entries", <<>>)

\* page.on('console', lambda msg: None)
PageOn ==
    /\ At("page_on")
    /\ Done("page_on")
    /\ UNCHANGED <<playwright, browser, locals, fs>>

\* cls_score = page.evaluate(...)      (units of 1e-5)
ClsScore == At("cls_score") /\ Eval("cls_score", cls_sum(page))

Headings ==
    At("headings") /\ Eval("headings", ExtractHeadings(page, InnerHeight(fn)))

TapTargets == At("tap_targets") /\ Eval("tap_targets", ExtractTapTargets(page))

SmallTargetsStmt ==
    At("small_targets") /\ Eval("small_targets", SmallTargets(locals["tap_targets"]))

\* og_title = get_meta(...) ... viewport_m = get_meta(...)
GetMetaStmt ==
    \E s \in DOMAIN MetaCalls :
        /\ At(s)
        /\ LET r == get_meta(page, MetaCalls[s].selector, MetaCalls[s].attr)
           IN  IF r.raised THEN Fail(r.value) ELSE Eval(s, r.value)

LdJsonBlocks == At("ld_json_blocks") /\ Eval("ld_json_blocks", ExtractLdJson(page))

Images == At("images") /\ Eval("images", ExtractImages(page))

FontFaces == At("font_faces") /\ Eval("font_faces", ExtractFontFaces(page))

BodyFontSizes ==
    /\ At("body_font_sizes")
    /\ Eval("body_font_sizes", ExtractBodyFontSizes(page, InnerHeight(fn)))

MinFontStmt ==
    At("min_font") /\ Eval("min_font", MinFont(locals["body_font_sizes"]))

AvgFontStmt ==
    /\ At("avg_font")
    /\ \E a \in AvgFont(locals["body_font_sizes"]) : Eval("avg_font", a)

\* the dict of the return statement; cls is round(cls_score, 4) in units of 1e-4
AuditReport(l, cls) ==
    [url |-> "url",
     viewport |-> "WxH",
     cls_score |-> cls,
     headings |-> l["headings"],
     small_tap_targets_count |-> Len(l["small_targets"]),
     small_tap_targets_sample |-> Take(l["small_targets"], SampleMax),
     meta |-> [og_title |-> l["og_title"],
               og_description |-> l["og_desc"],
               og_image |-> l["og_image"],
               og_url |-> l["og_url"],
               twitter_card |-> l["tw_card"],
               twitter_title |-> l["tw_title"],
               canonical |-> l["canonical"],
               robots |-> l["robots"],
               viewport |-> l["viewport_m"]],
     structured_data_count |-> Len(l["ld_json_blocks"]),
     structured_data |-> l["ld_json_blocks"],
     images |-> l["images"],
     images_missing_alt |-> MissingAlt(l["images"]),
     fonts |-> l["font_faces"],
     min_above_fold_font_px |-> l["min_font"],
     avg_above_fold_font_px |-> l["avg_font"]]

ReturnAudit ==
    /\ fn = "audit"
    /\ At("return")
    /\ \E cls \in RoundDiv(locals["cls_score"], 10) :
         result' = Some(AuditReport(locals, cls))
    /\ pc' = "returning"
    /\ UNCHANGED <<fn, page, ip, playwright, browser, locals, log, fs, err>>

----------------------------------------------------------------------------
(* Statements of capture() *)

Title == At("title") /\ Eval("title", page.title)

H1s == At("h1s") /\ Eval("h1s", ExtractHeadingTexts(page, "H1"))

H2s == At("h2s") /\ Eval("h2s", ExtractHeadingTexts(page, "H2"))

MetaDesc ==
    /\ At("meta_desc")
    /\ LET r == meta_desc_expr(page)
       IN  IF r.raised THEN Fail(r.value) ELSE Eval("meta_desc", r.value)

Ctas == At("ctas") /\ Eval("ctas", ExtractCtas(page, InnerHeight(fn)))

ScrollWidth == At("scroll_width") /\ Eval("scroll_width", page.scrollWidth)

ClientWidth == At("client_width") /\ Eval("client_width", page.clientWidth)

HasHScroll ==
    /\ At("has_h_scroll")
    /\ Eval("has_h_scroll", locals["scroll_width"] > locals["client_width"])

LogoCandidates ==
    /\ At("logo_candidates")
    /\ Eval("logo_candidates", ExtractLogos(page, InnerHeight(fn)))

\* os.makedirs(os.path.dirname(output_path), exist_ok=True)
MakeDirs ==
    /\ At("makedirs")
    /\ fs' = [fs EXCEPT !.dir = TRUE]
    /\ Done("makedirs")
    /\ UNCHANGED <<playwright, browser, locals>>

\* page.screenshot(path=output_path, full_page=False)
Screenshot ==
    /\ At("screenshot")
    /\ fs' = [fs EXCEPT !.file = TRUE]
    /\ Done("screenshot")
    /\ UNCHANGED <<playwright, browser, locals>>

CaptureReport(l) ==
    [title |-> l["title"],
     h1s |-> l["h1s"],
     h2s |-> Take(l["h2s"], H2Max),
     meta_description |-> l["meta_desc"],
     ctas |-> l["ctas"],
     has_horizontal_scroll |-> l["has_h_scroll"],
     scroll_width |-> l["scroll_width"],
     client_width |-> l["client_width"],
     logo_candidates |-> l["logo_candidates"]]

ReturnCapture ==
    /\ fn = "capture"
    /\ At("return")
    /\ result' = Some(CaptureReport(locals))
    /\ pc' = "returning"
    /\ UNCHANGED <<fn, page, ip, playwright, browser, locals, log, fs, err>>

----------------------------------------------------------------------------
(* Pages *)

MetaSelectors ==
    { "og:title", "og:description", "og:image", "og:url", "twitter:card",
      "twitter:title", "canonical", "robots", "viewport", "description" }

\* an element found by a meta/link selector: its content and href attributes
ElBare == [content |-> None, href |-> None]

ElContent == [content |-> Some(<<"v">>), href |-> None]

ElHref == [content |-> None, href |-> Some(<<"u">>)]

MetaEl(sel) == IF sel = "canonical" THEN ElHref ELSE ElContent

AllMetas == [sel \in MetaSelectors |-> Some(MetaEl(sel))]

NoMetas == [sel \in MetaSelectors |-> None]

HeadingEl(tag, top) ==
    [tag |-> tag, text |-> <<" ", "H", "i", " ">>, fontSize |-> "32px",
     fontWeight |-> "700", top |-> top, height |-> 1000]

AnchorEl(text, top, width, height) ==
    [tag |-> "A", text |-> text, top |-> top, left |-> 104,
     width |-> width, height |-> height]

ImgEl(tag, src, alt, top) ==
    [tag |-> tag, src |-> src, alt |-> alt, ariaLabel |-> None,
     inHeader |-> FALSE, inNav |-> FALSE, top |-> top,
     width |-> 1200, height |-> 400]

BodyEl(top, height, fontSize) ==
    [tag |-> "P", top |-> top, height |-> height, fontSize |-> fontSize]

LogoSrc == Some(<<"/", "L", "o", "g", "o">>)

GetText == <<" ", "G", "e", "t", " ">>

DefaultPage ==
    [title |-> <<"T">>,
     cls |-> [supported |-> TRUE, entries |-> <<1204, 31>>],
     headings |-> << HeadingEl("H1", 1000), HeadingEl("H2", 20000) >>,
     anchors |-> << AnchorEl(GetText, 3000, 1200, 480) >>,
     metas |-> AllMetas,
     ldjson |-> << <<" ", "{", "}">> >>,
     imgs |-> << ImgEl("IMG", LogoSrc, Some(<<"a">>), 200) >>,
     fonts |-> << [family |-> "Inter", status |-> "loaded"] >>,
     body |-> << BodyEl(5000, 200, 1600) >>,
     scrollWidth |-> 1440,
     clientWidth |-> 1440]

EmptyPage ==
    [title |-> <<>>,
     cls |-> [supported |-> FALSE, entries |-> <<>>],
     headings |-> <<>>,
     anchors |-> <<>>,
     metas |-> NoMetas,
     ldjson |-> <<>>,
     imgs |-> <<>>,
     fonts |-> <<>>,
     body |-> <<>>,
     scrollWidth |-> 1200,
     clientWidth |-> 800]

\* pages for the session lifecycle
PagesLifecycle == {DefaultPage, EmptyPage}

\* every combination of absent/present meta and link elements
MetaCombos ==
    { [sel \in MetaSelectors |-> IF sel \in present THEN Some(MetaEl(sel)) ELSE None] :
        present \in SUBSET MetaSelectors }

\* every element present, but without the attribute that is read
BareMetas == [sel \in MetaSelectors |-> Some(ElBare)]

\* every combination of empty/non-empty element lists, 0..MaxEls JSON-LD blocks
ListCombos ==
    { [DefaultPage EXCEPT
         !.metas = m,
         !.headings = IF "headings" \in full THEN @ ELSE <<>>,
         !.anchors = IF "anchors" \in full THEN @ ELSE <<>>,
         !.imgs = IF "imgs" \in full THEN @ ELSE <<>>,
         !.fonts = IF "fonts" \in full THEN @ ELSE <<>>,
         !.body = IF "body" \in full THEN @ ELSE <<>>,
         !.ldjson = [i \in 1..n |-> <<" ", "{", "}">>]] :
        m \in {NoMetas, BareMetas},
        full \in SUBSET {"headings", "anchors", "imgs", "fonts", "body"},
        n \in 0..MaxEls }

PagesAbsence ==
    {[DefaultPage EXCEPT !.metas = m] : m \in MetaCombos} \cup ListCombos

\* tops around both edges of the viewport; every box is 100px high, so
\* top = -1000 puts the bottom edge at 0
TopChoices == {-2000, -1000, -500, 8999, 9000, 10799, 10800}

LogoImg(top) ==
    [ImgEl("IMG", LogoSrc, None, top) EXCEPT !.height = 1000]

PagesLayout ==
    {[DefaultPage EXCEPT !.headings = h] :
        h \in SeqsUpTo({HeadingEl("H1", t) : t \in TopChoices}, MaxEls)}
    \cup
    {[DefaultPage EXCEPT !.anchors = a] :
        a \in SeqsUpTo({AnchorEl(GetText, t, 1200, 1000) : t \in TopChoices}, MaxEls)}
    \cup
    {[DefaultPage EXCEPT !.imgs = g] :
        g \in SeqsUpTo({LogoImg(t) : t \in TopChoices}, MaxEls)}

\* widths and heights of anchors, in tenths of a pixel: 0, 0.4, 43.5, 44, 50
TapSizes == {0, 4, 435, 440, 500}

PagesTap ==
    {[DefaultPage EXCEPT !.anchors = a] :
        a \in SeqsUpTo({AnchorEl(GetText, 3000, w, h) : w, h \in TapSizes}, MaxBoxes)}

\* p/span/li boxes: inside the viewport, inside with zero height, above, below
BodyBoxes == { <<5000, 200>>, <<5000, 0>>, <<-1000, 200>>, <<20000, 200>> }

\* computed font sizes in hundredths of a pixel: 0, 12px, 13.33px
BodySizes == {0, 1200, 1333}

PagesFont ==
    {[DefaultPage EXCEPT !.body = b] :
        b \in SeqsUpTo({BodyEl(r[1], r[2], f) : r \in BodyBoxes, f \in BodySizes},
                       MaxBoxes)}

\* alt attributes: absent, empty, whitespace only, text, padded text
AltChoices ==
    { None, Some(<<>>), Some(<<" ">>), Some(<<"\t", "\n">>), Some(<<"a">>),
      Some(<<" ", "a", " ">>) }

PagesImages ==
    {[DefaultPage EXCEPT !.imgs = g] :
        g \in SeqsUpTo({ImgEl("IMG", LogoSrc, a, 200) : a \in AltChoices}
                         \cup {ImgEl("SVG", None, None, 200)}, MaxEls)}

----------------------------------------------------------------------------
(* Specification *)

InitOn(pages) ==
    /\ fn \in {"capture", "audit"}
    /\ page \in pages
    /\ pc = "run"
    /\ ip = 1
    /\ playwright = "none"
    /\ browser = "none"
    /\ locals = NoLocals
    /\ log = <<>>
    /\ fs = [dir |-> FALSE, file |-> FALSE]
    /\ err = "none"
    /\ result = None

Next ==
    \/ EnterPlaywright \/ RaiseEnter \/ Launch \/ NewContext \/ NewPage
    \/ GotoOk \/ GotoFail \/ Wait \/ Close \/ Raise \/ WithExit
    \/ ClsEntries \/ PageOn \/ ClsScore \/ Headings \/ TapTargets
    \/ SmallTargetsStmt \/ GetMetaStmt \/ LdJsonBlocks \/ Images \/ FontFaces
    \/ BodyFontSizes \/ MinFontStmt \/ AvgFontStmt \/ ReturnAudit
    \/ Title \/ H1s \/ H2s \/ MetaDesc \/ Ctas \/ ScrollWidth \/ ClientWidth
    \/ HasHScroll \/ LogoCandidates \/ MakeDirs \/ Screenshot \/ ReturnCapture

Init == InitOn(PagesLifecycle)

Spec == Init /\ [][Next]_vars

SpecAbsence == InitOn(PagesAbsence) /\ [][Next]_vars

SpecLayout == InitOn(PagesLayout) /\ [][Next]_vars

SpecTap == InitOn(PagesTap) /\ [][Next]_vars

SpecFont == InitOn(PagesFont) /\ [][Next]_vars

SpecImages == InitOn(PagesImages) /\ [][Next]_vars

----------------------------------------------------------------------------
(* Vocabulary of the properties *)

InLog(e) == \E i \in DOMAIN log : log[i] = e

NavigationErrors == {"NavigationError:" \o r : r \in NavigationReasons}

\* failures of the engine or the OS, as opposed to an exception caused by a
\* selector that matches nothing
EngineErrors ==
    NavigationErrors \cup {"LaunchError", "ExtractionError", "OutputWriteError", "CloseError"}

\* the calls that read the rendered page
Reads(f) ==
    IF f = "audit"
    THEN { "cls_score", "headings", "tap_targets", "ld_json_blocks", "images",
           "font_faces", "body_font_sizes" } \cup DOMAIN MetaCalls
    ELSE { "title", "h1s", "h2s", "meta_desc", "ctas", "scroll_width",
           "client_width", "logo_candidates", "screenshot" }

ReportKeys(f) ==
    IF f = "audit"
    THEN { "url", "viewport", "cls_score", "headings", "small_tap_targets_count",
           "small_tap_targets_sample", "meta", "structured_data_count",
           "structured_data", "images", "images_missing_alt", "fonts",
           "min_above_fold_font_px", "avg_above_fold_font_px" }
    ELSE { "title", "h1s", "h2s", "meta_description", "ctas",
           "has_horizontal_scroll", "scroll_width", "client_width",
           "logo_candidates" }

MetaKeys ==
    { "og_title", "og_description", "og_image", "og_url", "twitter_card",
      "twitter_title", "canonical", "robots", "viewport" }

\* report key of the meta block -> the selector it is read with
MetaKeySelector ==
    [og_title |-> "og:title", og_description |-> "og:description",
     og_image |-> "og:image", og_url |-> "og:url",
     twitter_card |-> "twitter:card", twitter_title |-> "twitter:title",
     canonical |-> "canonical", robots |-> "robots", viewport |-> "viewport"]

Returned == pc = "exited" /\ result # None

----------------------------------------------------------------------------
(* C1 *)

\* C1: whenever a call of capture() or audit() that launched a browser has
\* exited, by return or by exception, that browser is no longer open.
C1_BrowserTornDown == (pc = "exited" /\ InLog("launch")) => browser = "closed"

\* an invocation that launched a browser, failed after that, and has exited
C1_Witness ==
    /\ pc = "exited"
    /\ InLog("launch")
    /\ err \in {"ExtractionError", "OutputWriteError"} \cup NavigationErrors
    /\ browser = "closed"

----------------------------------------------------------------------------
(* C2 *)

\* C2: a call that failed (navigation, an extractor query, the screenshot)
\* returns no report; a call that returns a report ran every read of its entry
\* point, wrote the screenshot (capture), and the report has every key.
C2_AllOrNothing ==
    /\ (pc = "exited" /\ err # "none") => result = None
    /\ result # None =>
         /\ err = "none"
         /\ DOMAIN result[1] = ReportKeys(fn)
         /\ \A e \in Reads(fn) : InLog(e)
         /\ fn = "audit" => DOMAIN result[1].meta = MetaKeys
         /\ fn = "capture" => fs.file

\* a capture that computed every fragment, could not write the screenshot,
\* and exited without a report
C2_Witness ==
    /\ pc = "exited"
    /\ fn = "capture"
    /\ err = "OutputWriteError"
    /\ InLog("logo_candidates")
    /\ result = None

----------------------------------------------------------------------------
(* C3 *)

IsGoto(e) == e \in {"goto:ok", "goto:fail"}

\* C3: every read of the page (and the screenshot) comes after the one
\* successful navigation and the post-load wait, before browser.close(), and
\* no navigation happens after a read.
C3_SameRender ==
    /\ \A i \in DOMAIN log :
         log[i] \in Reads(fn) =>
           /\ \E j \in 1..(i - 1) :
                /\ log[j] = "wait"
                /\ \E k \in 1..(j - 1) : log[k] = "goto:ok"
           /\ \A m \in 1..i : log[m] # "close"
           /\ \A m \in i..Len(log) : ~IsGoto(log[m])
    /\ Cardinality({i \in DOMAIN log : IsGoto(log[i])}) <= 1

\* a capture that read the page, took the screenshot and closed the browser
C3_Witness ==
    /\ fn = "capture"
    /\ InLog("title") /\ InLog("logo_candidates") /\ InLog("screenshot")
    /\ InLog("close")

----------------------------------------------------------------------------
(* C4 *)

\* C4: page.goto is attempted at most once; when it fails the exception leaves
\* the function at once: no wait, no read, no directory, no screenshot, no
\* report.
C4_NavigateOnce ==
    /\ Cardinality({i \in DOMAIN log : IsGoto(log[i])}) <= 1
    /\ InLog("goto:fail") =>
         /\ pc \in {"unwinding", "exited"}
         /\ err \in NavigationErrors
         /\ log[Len(log)] = "goto:fail"
         /\ ~InLog("wait")
         /\ \A e \in Reads(fn) : ~InLog(e)
         /\ ~InLog("makedirs")
         /\ fs = [dir |-> FALSE, file |-> FALSE]
         /\ result = None

\* a capture whose navigation timed out, after it has exited
C4_Witness ==
    /\ pc = "exited"
    /\ fn = "capture"
    /\ InLog("goto:fail")
    /\ err = "NavigationError:timeout"

----------------------------------------------------------------------------
(* C5 *)

IsStringOrNull(v) == v = None \/ (Len(v) = 1 /\ v[1] \in Seq({"v", "u"}))

\* C5: unless the engine itself fails, the call returns a report whatever is
\* absent from the page.  In audit's report every meta key is present, is a
\* string or null, and is null when its selector matches nothing; a list
\* fragment whose selector matches nothing is empty; structured_data_count is
\* the length of structured_data and the number of JSON-LD blocks of the page.
\* In capture's report meta_description is null and h1s, h2s, ctas and
\* logo_candidates are empty when nothing matches.
C5_AbsenceNeverRaises ==
    (pc = "exited" /\ err \notin EngineErrors) =>
        /\ result # None
        /\ fn = "audit" =>
             LET r == result[1] IN
             /\ DOMAIN r.meta = MetaKeys
             /\ \A k \in MetaKeys :
                  /\ IsStringOrNull(r.meta[k])
                  /\ page.metas[MetaKeySelector[k]] = None => r.meta[k] = None
             /\ page.headings = <<>> => r.headings = <<>>
             /\ page.anchors = <<>> =>
                  r.small_tap_targets_count = 0 /\ r.small_tap_targets_sample = <<>>
             /\ page.imgs = <<>> => r.images = <<>> /\ r.images_missing_alt = <<>>
             /\ page.fonts = <<>> => r.fonts = <<>>
             /\ page.body = <<>> =>
                  r.min_above_fold_font_px = None /\ r.avg_above_fold_font_px = None
             /\ r.structured_data_count = Len(r.structured_data)
             /\ Len(r.structured_data) = Len(page.ldjson)
        /\ fn = "capture" =>
             LET r == result[1] IN
             /\ IsStringOrNull(r.meta_description)
             /\ page.metas["description"] = None => r.meta_description = None
             /\ page.headings = <<>> => r.h1s = <<>> /\ r.h2s = <<>>
             /\ page.anchors = <<>> => r.ctas = <<>>
             /\ page.imgs = <<>> => r.logo_candidates = <<>>

\* an audit of a page with no og:title, no canonical link, no headings and no
\* JSON-LD block, which returned a report
C5_Witness ==
    /\ Returned
    /\ fn = "audit"
    /\ page.metas["og:title"] = None
    /\ page.metas["canonical"] = None
    /\ page.metas["robots"] # None
    /\ result[1].meta.og_title = None
    /\ result[1].meta.robots # None

----------------------------------------------------------------------------
(* C6 *)

\* C6: small_targets is drawn from tap_targets, every entry of it reports
\* width < 44 or height < 44, and no entry of tap_targets reports a zero width
\* or height.
C6_SmallTapTargets ==
    "small_targets" \in DOMAIN locals =>
        LET taps == locals["tap_targets"]
            small == locals["small_targets"]
        IN  /\ \A i \in DOMAIN small : \E j \in DOMAIN taps : taps[j] = small[i]
            /\ \A i \in DOMAIN small :
                 small[i].width < TapMin \/ small[i].height < TapMin
            /\ \A j \in DOMAIN taps : taps[j].width # 0 /\ taps[j].height # 0

----------------------------------------------------------------------------
(* C7 *)

\* C7: in a report of audit(), min_above_fold_font_px <= avg_above_fold_font_px
\* whenever both are non-null.
C7_MinLeAvg ==
    (Returned /\ fn = "audit") =>
        LET r == result[1] IN
        (r.min_above_fold_font_px # None /\ r.avg_above_fold_font_px # None) =>
            r.min_above_fold_font_px[1] <= r.avg_above_fold_font_px[1]

----------------------------------------------------------------------------
(* C8 *)

BothNull(r) == r.min_above_fold_font_px = None /\ r.avg_above_fold_font_px = None

BothNonNull(r) == r.min_above_fold_font_px # None /\ r.avg_above_fold_font_px # None

\* the page has a p/span/li box with top < viewportHeight and bottom > 0
\* (audit's viewport)
HasInViewportBody ==
    \E i \in DOMAIN page.body :
        /\ page.body[i].top < 10 * viewport_height_audit
        /\ page.body[i].top + page.body[i].height > 0

\* ... that also has a non-zero height and a positive computed font size
HasMeasuredBody ==
    \E i \in DOMAIN page.body :
        /\ page.body[i].top < 10 * viewport_height_audit
        /\ page.body[i].top + page.body[i].height > 0
        /\ page.body[i].height > 0
        /\ page.body[i].fontSize > 0

\* C8 as stated: min and avg are both null or both non-null, and null exactly
\* when the page has no p/span/li element inside the viewport.
C8_NullIffNoneInViewport ==
    (Returned /\ fn = "audit") =>
        /\ BothNull(result[1]) \/ BothNonNull(result[1])
        /\ BothNull(result[1]) <=> ~HasInViewportBody

\* C8 amended: min and avg are both null or both non-null, and null exactly
\* when the page has no p/span/li element inside the viewport that has a
\* non-zero height and a positive computed font size.
C8_NullIffNoneMeasured ==
    (Returned /\ fn = "audit") =>
        /\ BothNull(result[1]) \/ BothNonNull(result[1])
        /\ BothNull(result[1]) <=> ~HasMeasuredBody

\* an audit report with null font statistics for a page that has a zero-height
\* p inside the viewport
C8_Witness ==
    /\ Returned
    /\ fn = "audit"
    /\ HasInViewportBody
    /\ ~HasMeasuredBody
    /\ BothNull(result[1])

----------------------------------------------------------------------------
(* C9 *)

RECURSIVE WithoutAlt(_)
WithoutAlt(imgs) ==
    IF imgs = <<>> THEN <<>>
    ELSE (IF Head(imgs).hasAlt THEN <<>> ELSE <<Head(imgs)>>) \o WithoutAlt(Tail(imgs))

\* alt is non-null and has a character that is not whitespace
AltHasText(alt) == alt # None /\ \E i \in DOMAIN alt[1] : alt[1][i] \notin WhiteSpace

\* the img elements of the page, in document order
PageImgs == SelectSeq(page.imgs, LAMBDA el : el.tag = "IMG")

\* C9: images_missing_alt is the images without alt text, in order, and hasAlt
\* of an image is true exactly when its alt attribute is non-null and not
\* whitespace only.
C9_MissingAlt ==
    (Returned /\ fn = "audit") =>
        LET r == result[1] IN
        /\ r.images_missing_alt = WithoutAlt(r.images)
        /\ Len(r.images) = Len(PageImgs)
        /\ \A i \in DOMAIN r.images :
             /\ r.images[i].alt = PageImgs[i].alt
             /\ r.images[i].hasAlt <=> AltHasText(PageImgs[i].alt)

\* a report with an image whose alt is whitespace only (missing) after one
\* whose alt has text (not missing)
C9_Witness ==
    /\ Returned
    /\ fn = "audit"
    /\ Len(result[1].images) = 2
    /\ result[1].images[1].hasAlt
    /\ result[1].images[2].alt = Some(<<"\t", "\n">>)
    /\ Len(result[1].images_missing_alt) = 1

----------------------------------------------------------------------------
(* C10 *)

\* top < viewportHeight AND bottom > 0, on the element's own rectangle
RectInViewport(el) ==
    el.top < InnerHeight(fn) /\ el.top + el.height > 0

\* C10: each heading's aboveFold (audit) and each CTA's and logo candidate's
\* visible flag (capture) equals top < viewportHeight AND bottom > 0.
C10_VisibleFlags ==
    Returned =>
        LET r == result[1] IN
        /\ fn = "audit" =>
             \A i \in DOMAIN r.headings :
                 r.headings[i].aboveFold <=> RectInViewport(page.headings[i])
        /\ fn = "capture" =>
             /\ \A i \in DOMAIN r.ctas :
                  r.ctas[i].visible <=> RectInViewport(SelectSeq(page.anchors, IsCta)[i])
             /\ \A i \in DOMAIN r.logo_candidates :
                  r.logo_candidates[i].visible
                      <=> RectInViewport(SelectSeq(page.imgs, IsLogo)[i])

====
